---- MODULE Spec2Model ----
(***************************************************************************)
(* A model of ace.temporal_bullet.TemporalBullet and                       *)
(* ace.temporal_curator.TemporalCurator.                                   *)
(*                                                                         *)
(* Bullets are Python objects: the model keeps them in a heap (a sequence  *)
(* of records, a reference is an index into it), and the curator's         *)
(* playbook and archive are lists of references, so that aliasing, moving  *)
(* and in-place mutation are what they are in the code.                    *)
(*                                                                         *)
(* Time: a datetime is a number of half days; timedelta.days is the floor  *)
(* of the difference in whole days.  Floats: exp(-0.1 * days) is a table   *)
(* of the values scaled by ExpScale, and every score is kept as an exact   *)
(* integer multiple of a fixed scale, so that comparisons of scores are    *)
(* the comparisons the floats give.                                        *)
(***************************************************************************)
EXTENDS Integers, Sequences, FiniteSets, TLC

(***************************************************************************)
(* Bounds of the model.                                                    *)
(***************************************************************************)
MaxSteps == 3        \* calls made on the curator in one run

(***************************************************************************)
(* Input domains.                                                          *)
(***************************************************************************)
\* reference times, in half days: day 0, day 10.5, day 31
Times == {0, 21, 62}
Contents == {"x", "y"}
\* task_type = None is modelled by NoTask
NoTask == "None"
TaskTypes == {"a", "b"}
TaskArgs == TaskTypes \cup {NoTask}
TopKs == 0..2
\* values of archive_inactive_days given to the constructor (the default, 30,
\* archives the same bullets as 40 at these reference times)
ArchiveDaysChoices == {10, 40}
\* helpful/harmful counts a delta carries
DeltaCounts == {<<1, 0>>, <<0, 1>>}
\* a delta bullet as the caller builds it; id is unique by the data model and
\* is modelled by the order of creation (see NewBullet)
\* the timestamps a delta carries when it is handed to merge_delta
DeltaStamp == [created_at |-> 21, last_used_at |-> 21]
Deltas == {[content |-> c, helpful_count |-> n[1], harmful_count |-> n[2],
            created_at |-> DeltaStamp.created_at,
            last_used_at |-> DeltaStamp.last_used_at] :
             c \in Contents, n \in DeltaCounts}
DeltaLists == {<<>>} \cup {<<d>> : d \in Deltas}
                \cup {<<d, e>> : d \in Deltas, e \in Deltas}

VARIABLES heap, playbook, archive, archive_inactive_days, last, pre, steps

\* the objects of a serialization: the Python lists that bullets and mappings
\* refer to, the bullet objects, the mapping to_dict made (the argument of
\* from_dict), and lists and bullets as they were before the last call
VARIABLES lists, bullets, data, saved

serial_vars == <<lists, bullets, data, saved>>

\* the calls that concurrent callers have under way on the curator: for each
\* caller, where it is in its call (pc) and the local variables of the call
VARIABLE threads

vars == <<heap, playbook, archive, archive_inactive_days, last, pre, steps,
          lists, bullets, data, saved, threads>>

Range(s) == {s[i] : i \in 1..Len(s)}

(***************************************************************************)
(* TemporalBullet                                                          *)
(***************************************************************************)
RECENCY_DECAY_RATE_TENTHS == 1
FREQUENCY_WINDOW_DAYS == 30
TicksPerDay == 2
ExpScale == 100000

\* timedelta.days of (t - s)
DaysBetween(t, s) == (t - s) \div TicksPerDay

\* round(exp(-0.1 * d) * ExpScale) for d = -31 .. 31
ExpTable ==
  << 2219795, 2008554, 1817415, 1644465, 1487973, 1346374, 1218249, 1102318,
     997418, 902501, 816617, 738906, 668589, 604965, 547395, 495303, 448169,
     405520, 366930, 332012, 300417, 271828, 245960, 222554, 201375, 182212,
     164872, 149182, 134986, 122140, 110517, 100000, 90484, 81873, 74082,
     67032, 60653, 54881, 49659, 44933, 40657, 36788, 33287, 30119, 27253,
     24660, 22313, 20190, 18268, 16530, 14957, 13534, 12246, 11080, 10026,
     9072, 8208, 7427, 6721, 6081, 5502, 4979, 4505 >>

\* exp(-RECENCY_DECAY_RATE * d) * ExpScale
ExpDecay(d) == ExpTable[RECENCY_DECAY_RATE_TENTHS * d + 32]

\* recency_score * ExpScale
recency_score(b, t) == ExpDecay(DaysBetween(t, b.last_used_at))

\* len(recent_uses)
RecentUses(b, t) ==
  Cardinality({i \in 1..Len(b.usage_timeline) :
                 DaysBetween(t, b.usage_timeline[i]) <= FREQUENCY_WINDOW_DAYS})

\* frequency_score * FREQUENCY_WINDOW_DAYS
frequency_score(b, t) == RecentUses(b, t)

utility_score(b) == b.helpful_count - b.harmful_count

relevance_score_additive(b, t) ==
  utility_score(b) * ExpScale * FREQUENCY_WINDOW_DAYS
    + recency_score(b, t) * (FREQUENCY_WINDOW_DAYS + frequency_score(b, t))

\* relevance_score * ExpScale * FREQUENCY_WINDOW_DAYS
relevance_score(b, t) ==
  utility_score(b) * recency_score(b, t) * (FREQUENCY_WINDOW_DAYS + frequency_score(b, t))

mark_used(b, task_type, t) ==
  [b EXCEPT !.last_used_at = t,
            !.usage_timeline = Append(@, t),
            !.task_types_used =
               IF task_type # NoTask /\ task_type \notin Range(@)
               THEN Append(@, task_type) ELSE @]

\* recency < 0.05
RecencyBelowThreshold(b, t) == recency_score(b, t) * 100 < 5 * ExpScale

should_archive_inactive_only(b, min_days_inactive, t) ==
  DaysBetween(t, b.last_used_at) >= min_days_inactive

should_archive(b, min_days_inactive, t) ==
  \/ DaysBetween(t, b.last_used_at) >= min_days_inactive
  \/ RecencyBelowThreshold(b, t)

(***************************************************************************)
(* TemporalCurator                                                         *)
(***************************************************************************)
\* the delta as a TemporalBullet object: ref is its place in the heap, which
\* also stands for its id (ids are unique)
DeltaBullet(d, ref) ==
  [id |-> ref, content |-> d.content, bullet_type |-> "str",
   helpful_count |-> d.helpful_count, harmful_count |-> d.harmful_count,
   created_at |-> d.created_at, last_used_at |-> d.last_used_at,
   usage_timeline |-> <<>>, task_types_used |-> <<>>]

NewBullet_keep(d, ref, t) == DeltaBullet(d, ref)

NewBullet_created_only(d, ref, t) ==
  [DeltaBullet(d, ref) EXCEPT !.created_at = t]

\* the delta object once merge_delta has stamped it as a new bullet
NewBullet(d, ref, t) ==
  [DeltaBullet(d, ref) EXCEPT !.created_at = t, !.last_used_at = t]

\* _find_similar: the first candidate with the delta's content, 0 for None
RECURSIVE FindFrom(_, _, _, _)
FindFrom(h, content, candidates, i) ==
  IF i > Len(candidates) THEN 0
  ELSE IF h[candidates[i]].content = content THEN candidates[i]
  ELSE FindFrom(h, content, candidates, i + 1)

_find_similar_archived(h, d, candidates) ==
  FindFrom(h, d.content, candidates \o archive, 1)

_find_similar(h, d, candidates) == FindFrom(h, d.content, candidates, 1)

MergeOne_replace(st, d, t) ==
  LET similar == _find_similar(st.heap, d, playbook) IN
  IF similar # 0
  THEN [heap |-> [st.heap EXCEPT ![similar] =
                    mark_used([@ EXCEPT !.helpful_count = d.helpful_count,
                                        !.harmful_count = d.harmful_count],
                              NoTask, t)],
        updated |-> Append(st.updated, similar)]
  ELSE [heap |-> Append(st.heap, NewBullet(d, Len(st.heap) + 1, t)),
        updated |-> Append(st.updated, Len(st.heap) + 1)]

MergeOne_net(st, d, t) ==
  LET similar == _find_similar(st.heap, d, playbook) IN
  IF similar # 0
  THEN [heap |-> [st.heap EXCEPT ![similar] =
                    mark_used([@ EXCEPT !.helpful_count =
                                          @ + d.helpful_count - d.harmful_count],
                              NoTask, t)],
        updated |-> Append(st.updated, similar)]
  ELSE [heap |-> Append(st.heap, NewBullet(d, Len(st.heap) + 1, t)),
        updated |-> Append(st.updated, Len(st.heap) + 1)]

\* one pass of the loop over delta_bullets; st = [heap, updated]
MergeOne(st, d, t) ==
  LET similar == _find_similar(st.heap, d, playbook) IN
  IF similar # 0
  THEN [heap |-> [st.heap EXCEPT ![similar] =
                    mark_used([@ EXCEPT !.helpful_count = @ + d.helpful_count,
                                        !.harmful_count = @ + d.harmful_count],
                              NoTask, t)],
        updated |-> Append(st.updated, similar)]
  ELSE [heap |-> Append(st.heap, NewBullet(d, Len(st.heap) + 1, t)),
        updated |-> Append(st.updated, Len(st.heap) + 1)]

RECURSIVE MergeLoop(_, _, _, _)
MergeLoop(st, deltas, i, t) ==
  IF i > Len(deltas) THEN st
  ELSE MergeLoop(MergeOne(st, deltas[i], t), deltas, i + 1, t)

\* bullet in updated_playbook: list membership by dataclass equality
BulletIn(h, ref, list) == \E j \in 1..Len(list) : h[list[j]] = h[ref]

CarryOver_none(h, old, i, updated) == updated

\* the loop that adds the bullets not in the delta
RECURSIVE CarryOver(_, _, _, _)
CarryOver(h, old, i, updated) ==
  IF i > Len(old) THEN updated
  ELSE CarryOver(h, old, i + 1,
                 IF BulletIn(h, old[i], updated) THEN updated
                 ELSE Append(updated, old[i]))

MergeResult(deltas, t) ==
  LET st == MergeLoop([heap |-> heap, updated |-> <<>>], deltas, 1, t) IN
  [heap |-> st.heap, playbook |-> CarryOver(st.heap, playbook, 1, st.updated)]

NoArgs == [t |-> 0, task_type |-> NoTask, top_k |-> 0, deltas |-> <<>>]

merge_delta(deltas, t) ==
  LET res == MergeResult(deltas, t) IN
  /\ heap' = res.heap
  /\ playbook' = res.playbook
  /\ last' = [op |-> "merge_delta",
              args |-> [NoArgs EXCEPT !.t = t, !.deltas = deltas],
              ret |-> res.playbook]
  /\ UNCHANGED <<archive, archive_inactive_days>>

RECURSIVE InsertRanked_reversed(_, _, _, _)
InsertRanked_reversed(h, t, ranked, ref) ==
  IF ranked = <<>> THEN <<ref>>
  ELSE IF relevance_score(h[Head(ranked)], t) > relevance_score(h[ref], t)
       THEN <<Head(ranked)>> \o InsertRanked_reversed(h, t, Tail(ranked), ref)
       ELSE <<ref>> \o ranked

\* sorted(candidates, key=relevance_score, reverse=True): a stable sort, so
\* an element goes after every element whose key is at least its own
RECURSIVE InsertRanked(_, _, _, _)
InsertRanked(h, t, ranked, ref) ==
  IF ranked = <<>> THEN <<ref>>
  ELSE IF relevance_score(h[Head(ranked)], t) >= relevance_score(h[ref], t)
       THEN <<Head(ranked)>> \o InsertRanked(h, t, Tail(ranked), ref)
       ELSE <<ref>> \o ranked

RECURSIVE Ranked(_, _, _, _)
Ranked(h, t, candidates, n) ==
  IF n = 0 THEN <<>>
  ELSE InsertRanked(h, t, Ranked(h, t, candidates, n - 1), candidates[n])

Candidates_labelled(h, task_type) ==
  IF task_type # NoTask
  THEN SelectSeq(playbook, LAMBDA r : task_type \in Range(h[r].task_types_used))
  ELSE playbook

\* the task-type filter of retrieve_relevant
Candidates(h, task_type) ==
  IF task_type # NoTask
  THEN SelectSeq(playbook,
                 LAMBDA r : \/ task_type \in Range(h[r].task_types_used)
                            \/ h[r].task_types_used = <<>>)
  ELSE playbook

\* ranked[:top_k]
TopBullets(h, task_type, top_k, t) ==
  LET candidates == Candidates(h, task_type)
      ranked == Ranked(h, t, candidates, Len(candidates))
  IN  SubSeq(ranked, 1, IF top_k < Len(ranked) THEN top_k ELSE Len(ranked))

\* the loop that marks the retrieved bullets as used
RECURSIVE MarkAll(_, _, _, _, _)
MarkAll(h, top, i, task_type, t) ==
  IF i > Len(top) THEN h
  ELSE MarkAll([h EXCEPT ![top[i]] = mark_used(@, task_type, t)],
               top, i + 1, task_type, t)

retrieve_relevant(task_type, top_k, t) ==
  LET top == TopBullets(heap, task_type, top_k, t)
      h == MarkAll(heap, top, 1, task_type, t)
  IN  /\ heap' = h
      /\ last' = [op |-> "retrieve_relevant",
                  args |-> [NoArgs EXCEPT !.t = t, !.task_type = task_type,
                                          !.top_k = top_k],
                  ret |-> top]
      /\ UNCHANGED <<playbook, archive, archive_inactive_days>>

\* bullet.should_archive(self.archive_inactive_days, current_time)
IsStale_default(r, t) == should_archive(heap[r], 30, t)

IsStale(r, t) == should_archive(heap[r], archive_inactive_days, t)

\* the partition of archive_stale_bullets
Stale(t) == SelectSeq(playbook, LAMBDA r : IsStale(r, t))

Fresh(t) == SelectSeq(playbook, LAMBDA r : ~IsStale(r, t))

archive_stale_bullets_keep(t) ==
  /\ archive' = archive \o Stale(t)
  /\ last' = [op |-> "archive_stale_bullets",
              args |-> [NoArgs EXCEPT !.t = t],
              ret |-> [archived_count |-> Len(Stale(t)),
                       active_count |-> Len(Fresh(t)),
                       archived_bullets |-> Stale(t)]]
  /\ UNCHANGED <<heap, playbook, archive_inactive_days>>

archive_stale_bullets(t) ==
  /\ archive' = archive \o Stale(t)
  /\ playbook' = Fresh(t)
  /\ last' = [op |-> "archive_stale_bullets",
              args |-> [NoArgs EXCEPT !.t = t],
              ret |-> [archived_count |-> Len(Stale(t)),
                       active_count |-> Len(Fresh(t)),
                       archived_bullets |-> Stale(t)]]
  /\ UNCHANGED <<heap, archive_inactive_days>>

\* sum(scores), of a list of numbers
RECURSIVE Sum(_)
Sum(scores) == IF scores = <<>> THEN 0 ELSE Head(scores) + Sum(Tail(scores))

\* an average is kept as the fraction sum / (scale * len)
Average(sum, den) == [num |-> sum, den |-> den]
Zero == [num |-> 0, den |-> 1]

TemporalStats_unguarded(h, pb, t) ==
    [total_bullets |-> Len(pb),
     avg_recency |->
        Average(Sum([i \in 1..Len(pb) |-> recency_score(h[pb[i]], t)]), ExpScale * Len(pb)),
     avg_frequency |->
        Average(Sum([i \in 1..Len(pb) |-> frequency_score(h[pb[i]], t)]),
                FREQUENCY_WINDOW_DAYS * Len(pb)),
     avg_relevance |->
        Average(Sum([i \in 1..Len(pb) |-> relevance_score(h[pb[i]], t)]),
                ExpScale * FREQUENCY_WINDOW_DAYS * Len(pb)),
     avg_age_days |->
        Average(Sum([i \in 1..Len(pb) |-> DaysBetween(t, h[pb[i]].created_at)]), Len(pb)),
     avg_inactive_days |->
        Average(Sum([i \in 1..Len(pb) |-> DaysBetween(t, h[pb[i]].last_used_at)]), Len(pb)),
     stale_bullets |->
        Cardinality({i \in 1..Len(pb) : should_archive(h[pb[i]], archive_inactive_days, t)})]

\* the dictionary get_temporal_stats returns
TemporalStats(h, pb, t) ==
  IF pb = <<>>
  THEN [total_bullets |-> 0, avg_recency |-> Zero, avg_frequency |-> Zero,
        avg_relevance |-> Zero, avg_age_days |-> Zero,
        avg_inactive_days |-> Zero, stale_bullets |-> 0]
  ELSE
    [total_bullets |-> Len(pb),
     avg_recency |->
        Average(Sum([i \in 1..Len(pb) |-> recency_score(h[pb[i]], t)]), ExpScale * Len(pb)),
     avg_frequency |->
        Average(Sum([i \in 1..Len(pb) |-> frequency_score(h[pb[i]], t)]),
                FREQUENCY_WINDOW_DAYS * Len(pb)),
     avg_relevance |->
        Average(Sum([i \in 1..Len(pb) |-> relevance_score(h[pb[i]], t)]),
                ExpScale * FREQUENCY_WINDOW_DAYS * Len(pb)),
     avg_age_days |->
        Average(Sum([i \in 1..Len(pb) |-> DaysBetween(t, h[pb[i]].created_at)]), Len(pb)),
     avg_inactive_days |->
        Average(Sum([i \in 1..Len(pb) |-> DaysBetween(t, h[pb[i]].last_used_at)]), Len(pb)),
     stale_bullets |->
        Cardinality({i \in 1..Len(pb) : should_archive(h[pb[i]], archive_inactive_days, t)})]

get_temporal_stats_all(t) ==
  /\ last' = [op |-> "get_temporal_stats",
              args |-> [NoArgs EXCEPT !.t = t],
              ret |-> TemporalStats(heap, playbook \o archive, t)]
  /\ UNCHANGED <<heap, playbook, archive, archive_inactive_days>>

get_temporal_stats(t) ==
  /\ last' = [op |-> "get_temporal_stats",
              args |-> [NoArgs EXCEPT !.t = t],
              ret |-> TemporalStats(heap, playbook, t)]
  /\ UNCHANGED <<heap, playbook, archive, archive_inactive_days>>

Init ==
  /\ heap = <<>>
  /\ playbook = <<>>
  /\ archive = <<>>
  /\ archive_inactive_days \in ArchiveDaysChoices
  /\ last = [op |-> "init", args |-> NoArgs, ret |-> <<>>]
  /\ pre = [heap |-> <<>>, playbook |-> <<>>, archive |-> <<>>]
  /\ steps = 0
  /\ lists = <<>>
  /\ bullets = <<>>
  /\ data = <<>>
  /\ saved = [lists |-> <<>>, bullets |-> <<>>]
  /\ threads = <<>>

\* one more call, while the run is shorter than limit calls
\* (pre keeps the curator as it was when the call was made)
Call(limit) ==
  /\ steps < limit
  /\ steps' = steps + 1
  /\ pre' = [heap |-> heap, playbook |-> playbook, archive |-> archive]
  /\ UNCHANGED <<serial_vars, threads>>

\* runs of MaxSteps calls, merging up to two deltas at a time
Next ==
  \/ \E deltas \in DeltaLists, t \in Times : Call(MaxSteps) /\ merge_delta(deltas, t)
  \/ \E t \in Times : Call(MaxSteps) /\ archive_stale_bullets(t)
  \/ \E task_type \in TaskArgs, top_k \in TopKs, t \in Times :
        Call(MaxSteps) /\ retrieve_relevant(task_type, top_k, t)
  \/ \E t \in Times : Call(MaxSteps) /\ get_temporal_stats(t)

\* runs of one more call, merging one delta at a time and retrieving one or
\* two bullets
NextLong ==
  \/ \E d \in Deltas, t \in Times : Call(MaxSteps + 1) /\ merge_delta(<<d>>, t)
  \/ \E t \in Times : Call(MaxSteps + 1) /\ archive_stale_bullets(t)
  \/ \E task_type \in TaskArgs, top_k \in TopKs \ {0}, t \in Times :
        Call(MaxSteps + 1) /\ retrieve_relevant(task_type, top_k, t)
  \/ \E t \in Times : Call(MaxSteps + 1) /\ get_temporal_stats(t)

SpecLong == Init /\ [][NextLong]_vars

\* runs of MaxSteps calls whose reference times never go back: each call is
\* made with a time not earlier than that of the call before
NextOrdered ==
  \/ \E deltas \in DeltaLists, t \in Times :
        t >= last.args.t /\ Call(MaxSteps) /\ merge_delta(deltas, t)
  \/ \E t \in Times : t >= last.args.t /\ Call(MaxSteps) /\ archive_stale_bullets(t)
  \/ \E task_type \in TaskArgs, top_k \in TopKs, t \in Times :
        t >= last.args.t /\ Call(MaxSteps) /\ retrieve_relevant(task_type, top_k, t)
  \/ \E t \in Times : t >= last.args.t /\ Call(MaxSteps) /\ get_temporal_stats(t)

SpecOrdered == Init /\ [][NextOrdered]_vars

Spec == Init /\ [][Next]_vars

(***************************************************************************)
(* TemporalBullet.to_dict / from_dict                                      *)
(*                                                                         *)
(* A bullet object holds references to its two lists (places of lists), so *)
(* that two bullets, or a bullet and a mapping, can hold the same list.    *)
(* An ISO string is the date and the hour it spells; a string whose hour   *)
(* is not an hour of the day does not parse.                               *)
(***************************************************************************)
Keys == {"id", "content", "bullet_type", "helpful_count", "harmful_count",
         "created_at", "last_used_at", "usage_timeline", "task_types_used"}

HoursPerTick == 24 \div TicksPerDay

\* datetime.isoformat()
isoformat(t) ==
  [kind |-> "str", date |-> t \div TicksPerDay, hour |-> (t % TicksPerDay) * HoursPerTick]

\* a datetime object held by a mapping
Datetime(t) == [kind |-> "datetime", ticks |-> t]

\* datetime.fromisoformat(v): the datetime, or the error raised
fromisoformat(v) ==
  IF v.kind # "str" THEN [raised |-> "TypeError", value |-> 0]
  ELSE IF v.hour \notin 0..23 THEN [raised |-> "ValueError", value |-> 0]
  ELSE [raised |-> "none", value |-> v.date * TicksPerDay + v.hour \div HoursPerTick]

\* the bullet as a value: its lists in place of the references to them
\* (what dataclass equality compares)
Value(ls, o) ==
  [o EXCEPT !.usage_timeline = ls[@], !.task_types_used = ls[@]]

\* to_dict: the list of ISO strings is a new list, task_types_used is the
\* bullet's own list
ToDict(ls, o) ==
  [lists |-> Append(ls, [i \in 1..Len(ls[o.usage_timeline]) |->
                           isoformat(ls[o.usage_timeline][i])]),
   data |-> [id |-> o.id, content |-> o.content, bullet_type |-> o.bullet_type,
             helpful_count |-> o.helpful_count, harmful_count |-> o.harmful_count,
             created_at |-> isoformat(o.created_at),
             last_used_at |-> isoformat(o.last_used_at),
             usage_timeline |-> Len(ls) + 1,
             task_types_used |-> o.task_types_used]]

\* data[key] = datetime.fromisoformat(data[key]);
\* st = [lists, data, raised, bullet]
ParseKey(st, key) ==
  IF st.raised # "none" THEN st
  ELSE IF key \notin DOMAIN st.data THEN [st EXCEPT !.raised = "KeyError"]
  ELSE LET r == fromisoformat(st.data[key]) IN
       IF r.raised # "none" THEN [st EXCEPT !.raised = r.raised]
       ELSE [st EXCEPT !.data = [k \in DOMAIN st.data |->
                                   IF k = key THEN Datetime(r.value) ELSE st.data[k]]]

\* data['usage_timeline'] = [datetime.fromisoformat(t) for t in ...]
ParseTimeline(st) ==
  IF st.raised # "none" THEN st
  ELSE IF "usage_timeline" \notin DOMAIN st.data THEN [st EXCEPT !.raised = "KeyError"]
  ELSE LET texts == st.lists[st.data["usage_timeline"]]
           parsed == [i \in 1..Len(texts) |-> fromisoformat(texts[i])]
           bad == {i \in 1..Len(texts) : parsed[i].raised # "none"}
       IN  IF bad # {}
           THEN [st EXCEPT !.raised = parsed[CHOOSE i \in bad : \A j \in bad : i <= j].raised]
           ELSE [lists |-> Append(st.lists, [i \in 1..Len(texts) |-> parsed[i].value]),
                 data |-> [k \in DOMAIN st.data |->
                             IF k = "usage_timeline" THEN Len(st.lists) + 1
                             ELSE st.data[k]],
                 raised |-> "none", bullet |-> <<>>]

\* cls(**data): id, content and bullet_type are required, the counts default
\* to 0 and task_types_used to a new empty list; st.bullet is the bullet made,
\* if any
Construct(st) ==
  IF st.raised # "none" THEN [st EXCEPT !.bullet = <<>>]
  ELSE IF {"id", "content", "bullet_type"} \ DOMAIN st.data # {}
  THEN [st EXCEPT !.raised = "TypeError", !.bullet = <<>>]
  ELSE LET has(k) == k \in DOMAIN st.data
           ls == IF has("task_types_used") THEN st.lists ELSE Append(st.lists, <<>>)
       IN [st EXCEPT
             !.lists = ls,
             !.bullet =
                <<[id |-> st.data["id"], content |-> st.data["content"],
                   bullet_type |-> st.data["bullet_type"],
                   helpful_count |->
                      IF has("helpful_count") THEN st.data["helpful_count"] ELSE 0,
                   harmful_count |->
                      IF has("harmful_count") THEN st.data["harmful_count"] ELSE 0,
                   created_at |-> st.data["created_at"].ticks,
                   last_used_at |-> st.data["last_used_at"].ticks,
                   usage_timeline |-> st.data["usage_timeline"],
                   task_types_used |->
                      IF has("task_types_used") THEN st.data["task_types_used"]
                      ELSE Len(ls)]>>]

\* from_dict(data): the lines of the method in order; the mapping keeps what
\* the lines before an error wrote into it
FromDict(ls, d) ==
  Construct(ParseTimeline(ParseKey(ParseKey(
    [lists |-> ls, data |-> d, raised |-> "none", bullet |-> <<>>],
    "created_at"), "last_used_at")))

\* the bullets a serialization starts from
SerialCounts == {<<0, 0>>, <<2, 1>>}
SerialTimelines == {<<>>, <<21>>, <<62, 21>>}
SerialTaskLists == {<<>>, <<"a">>, <<"b", "a">>}

\* one more call in a serialization; saved keeps lists and bullets as they
\* were when the call was made
SerialCall ==
  /\ steps < MaxSteps
  /\ steps' = steps + 1
  /\ saved' = [lists |-> lists, bullets |-> bullets]
  /\ UNCHANGED <<heap, playbook, archive, archive_inactive_days, pre, threads>>

\* data = bullets[i].to_dict()
to_dict(i) ==
  LET res == ToDict(lists, bullets[i]) IN
  /\ lists' = res.lists
  /\ data' = res.data
  /\ last' = [op |-> "to_dict", args |-> [bullet |-> i], ret |-> "dict"]
  /\ UNCHANGED bullets

\* TemporalBullet.from_dict(data); args.source is the bullet whose to_dict
\* made the mapping in the call just before, 0 if there is none
from_dict ==
  LET res == FromDict(lists, data) IN
  /\ lists' = res.lists
  /\ data' = res.data
  /\ bullets' = bullets \o res.bullet
  /\ last' = [op |-> "from_dict",
              args |-> [data |-> data,
                        source |-> IF last.op = "to_dict" THEN last.args.bullet ELSE 0],
              ret |-> res.raised]

\* bullets[i].mark_used(task_type, t)
MarkUsed(i, task_type, t) ==
  LET o == bullets[i]
      v == mark_used(Value(lists, o), task_type, t)
      timeline == [lists EXCEPT ![o.usage_timeline] = v.usage_timeline]
  IN  /\ bullets' = [bullets EXCEPT ![i].last_used_at = v.last_used_at]
      /\ lists' = [timeline EXCEPT ![o.task_types_used] = v.task_types_used]
      /\ last' = [op |-> "mark_used",
                  args |-> [bullet |-> i, task_type |-> task_type, t |-> t],
                  ret |-> "None"]
      /\ UNCHANGED data

\* stored state that lost a key
DropKey(key) ==
  /\ key \in DOMAIN data
  /\ data' = [k \in DOMAIN data \ {key} |-> data[k]]
  /\ last' = [op |-> "drop", args |-> [key |-> key], ret |-> "None"]
  /\ UNCHANGED <<lists, bullets>>

\* stored state whose timestamp under key does not parse
Garble(key) ==
  /\ key \in DOMAIN data
  /\ data[key].kind = "str"
  /\ data' = [k \in DOMAIN data |-> IF k = key THEN [data[k] EXCEPT !.hour = 99]
                                     ELSE data[k]]
  /\ last' = [op |-> "garble", args |-> [key |-> key], ret |-> "None"]
  /\ UNCHANGED <<lists, bullets>>

\* stored state whose usage_timeline holds an entry that does not parse
GarbleTimeline ==
  /\ "usage_timeline" \in DOMAIN data
  /\ lists' = Append(lists, <<[isoformat(0) EXCEPT !.hour = 99]>>)
  /\ data' = [k \in DOMAIN data |-> IF k = "usage_timeline" THEN Len(lists) + 1
                                     ELSE data[k]]
  /\ last' = [op |-> "garble", args |-> [key |-> "usage_timeline"], ret |-> "None"]
  /\ UNCHANGED bullets

\* a bullet with lists of its own, and no mapping yet
InitSerial ==
  /\ heap = <<>>
  /\ playbook = <<>>
  /\ archive = <<>>
  /\ archive_inactive_days = 30
  /\ pre = [heap |-> <<>>, playbook |-> <<>>, archive |-> <<>>]
  /\ steps = 0
  /\ last = [op |-> "init", args |-> NoArgs, ret |-> <<>>]
  /\ \E timeline \in SerialTimelines, tasks \in SerialTaskLists : lists = <<timeline, tasks>>
  /\ \E c \in Contents, n \in SerialCounts, created \in Times, used \in Times :
       bullets = <<[id |-> 1, content |-> c, bullet_type |-> "str",
                    helpful_count |-> n[1], harmful_count |-> n[2],
                    created_at |-> created, last_used_at |-> used,
                    usage_timeline |-> 1, task_types_used |-> 2]>>
  /\ data = <<>>
  /\ saved = [lists |-> lists, bullets |-> bullets]
  /\ threads = <<>>

\* a bullet is serialized, the mapping may be damaged in storage, is
\* deserialized, and the bullets are used
NextSerial ==
  \/ \E i \in 1..Len(bullets) : SerialCall /\ to_dict(i)
  \/ SerialCall /\ from_dict
  \/ \E i \in 1..Len(bullets), task_type \in TaskArgs, t \in Times :
        Len(bullets) > 1 /\ SerialCall /\ MarkUsed(i, task_type, t)
  \/ \E key \in Keys : SerialCall /\ DropKey(key)
  \/ \E key \in {"created_at", "last_used_at"} : SerialCall /\ Garble(key)
  \/ SerialCall /\ GarbleTimeline

SpecSerial == InitSerial /\ [][NextSerial]_vars

(***************************************************************************)
(* Concurrent callers.  The curator takes no lock, so the calls of two     *)
(* threads interleave.  A step below is a stretch of one method that runs  *)
(* without reading or writing self.playbook in between: a loop over the    *)
(* playbook, or the assignment to self.playbook that ends the method.      *)
(***************************************************************************)
Callers == {"A", "B"}

Idle == [pc |-> "idle", op |-> "none", args |-> NoArgs,
         updated_playbook |-> <<>>, active |-> <<>>, top |-> <<>>]

\* the steps leave the sequential bookkeeping and the serialization alone
ThreadStep ==
  UNCHANGED <<archive_inactive_days, last, pre, steps, serial_vars>>

\* merge_delta, lines 49-52: updated_playbook = []
BeginMerge(c, deltas, t) ==
  /\ threads[c].pc = "idle"
  /\ threads' = [threads EXCEPT ![c] =
                   [Idle EXCEPT !.pc = IF deltas = <<>> THEN "merge_carry" ELSE "merge_loop",
                                !.op = "merge_delta",
                                !.args = [NoArgs EXCEPT !.t = t, !.deltas = deltas]]]
  /\ UNCHANGED <<heap, playbook, archive>>
  /\ ThreadStep

\* merge_delta, lines 54-68: one pass of the loop over delta_bullets
MergeStep(c) ==
  LET th == threads[c]
      i == Len(th.updated_playbook) + 1
      st == MergeOne([heap |-> heap, updated |-> th.updated_playbook],
                     th.args.deltas[i], th.args.t)
  IN  /\ th.pc = "merge_loop"
      /\ heap' = st.heap
      /\ threads' = [threads EXCEPT
                       ![c].updated_playbook = st.updated,
                       ![c].pc = IF i = Len(th.args.deltas) THEN "merge_carry"
                                 ELSE "merge_loop"]
      /\ UNCHANGED <<playbook, archive>>
      /\ ThreadStep

\* merge_delta, lines 70-73: the bullets of self.playbook not in the delta
MergeCarry(c) ==
  /\ threads[c].pc = "merge_carry"
  /\ threads' = [threads EXCEPT
                   ![c].updated_playbook = CarryOver(heap, playbook, 1, @),
                   ![c].pc = "merge_assign"]
  /\ UNCHANGED <<heap, playbook, archive>>
  /\ ThreadStep

\* merge_delta, lines 75-76: self.playbook = updated_playbook
MergeAssign(c) ==
  /\ threads[c].pc = "merge_assign"
  /\ playbook' = threads[c].updated_playbook
  /\ threads' = [threads EXCEPT ![c].pc = "done"]
  /\ UNCHANGED <<heap, archive>>
  /\ ThreadStep

\* archive_stale_bullets, lines 87-98: the loop over self.playbook, which
\* appends to self.archive and fills the local list active
BeginArchive(c, t) ==
  /\ threads[c].pc = "idle"
  /\ archive' = archive \o Stale(t)
  /\ threads' = [threads EXCEPT ![c] =
                   [Idle EXCEPT !.pc = "archive_assign",
                                !.op = "archive_stale_bullets",
                                !.args = [NoArgs EXCEPT !.t = t],
                                !.active = Fresh(t)]]
  /\ UNCHANGED <<heap, playbook>>
  /\ ThreadStep

\* archive_stale_bullets, lines 100-106: self.playbook = active
ArchiveAssign(c) ==
  /\ threads[c].pc = "archive_assign"
  /\ playbook' = threads[c].active
  /\ threads' = [threads EXCEPT ![c].pc = "done"]
  /\ UNCHANGED <<heap, archive>>
  /\ ThreadStep

\* retrieve_relevant, lines 119-140: filter, sort, cut
BeginRetrieve(c, task_type, top_k, t) ==
  /\ threads[c].pc = "idle"
  /\ threads' = [threads EXCEPT ![c] =
                   [Idle EXCEPT !.pc = "retrieve_mark",
                                !.op = "retrieve_relevant",
                                !.args = [NoArgs EXCEPT !.t = t, !.task_type = task_type,
                                                        !.top_k = top_k],
                                !.top = TopBullets(heap, task_type, top_k, t)]]
  /\ UNCHANGED <<heap, playbook, archive>>
  /\ ThreadStep

\* retrieve_relevant, lines 142-147: mark the retrieved bullets as used
RetrieveMark(c) ==
  /\ threads[c].pc = "retrieve_mark"
  /\ heap' = MarkAll(heap, threads[c].top, 1, threads[c].args.task_type, threads[c].args.t)
  /\ threads' = [threads EXCEPT ![c].pc = "done"]
  /\ UNCHANGED <<playbook, archive>>
  /\ ThreadStep

\* get_temporal_stats reads the playbook and returns
StatsCall(c, t) ==
  /\ threads[c].pc = "idle"
  /\ threads' = [threads EXCEPT ![c] =
                   [Idle EXCEPT !.pc = "done", !.op = "get_temporal_stats",
                                !.args = [NoArgs EXCEPT !.t = t]]]
  /\ UNCHANGED <<heap, playbook, archive>>
  /\ ThreadStep

\* a curator built on a playbook of one bullet (or none), and two callers
\* about to call it
InitConcurrent ==
  /\ \/ heap = <<>> /\ playbook = <<>>
     \/ \E d \in Deltas : heap = <<NewBullet(d, 1, 0)>> /\ playbook = <<1>>
  /\ archive = <<>>
  /\ archive_inactive_days \in ArchiveDaysChoices
  /\ last = [op |-> "init", args |-> NoArgs, ret |-> <<>>]
  /\ pre = [heap |-> heap, playbook |-> playbook, archive |-> <<>>]
  /\ steps = 0
  /\ lists = <<>>
  /\ bullets = <<>>
  /\ data = <<>>
  /\ saved = [lists |-> <<>>, bullets |-> <<>>]
  /\ threads = [c \in Callers |-> Idle]

NextConcurrent ==
  \E c \in Callers :
    \/ \E d \in Deltas, t \in Times : BeginMerge(c, <<d>>, t)
    \/ MergeStep(c)
    \/ MergeCarry(c)
    \/ MergeAssign(c)
    \/ \E t \in Times : BeginArchive(c, t)
    \/ ArchiveAssign(c)
    \/ \E task_type \in TaskArgs, top_k \in TopKs \ {0}, t \in Times :
          BeginRetrieve(c, task_type, top_k, t)
    \/ RetrieveMark(c)
    \/ \E t \in Times : StatsCall(c, t)

SpecConcurrent == InitConcurrent /\ [][NextConcurrent]_vars

(***************************************************************************)
(* Properties.  last is the call just made, pre the curator before it.     *)
(***************************************************************************)
Called(op) == last.op = op

\* the places of the prior playbook that hold a bullet with content c
Holders(c) ==
  {i \in 1..Len(pre.playbook) : pre.heap[pre.playbook[i]].content = c}

Known(c) == Holders(c) # {}

\* the prior bullet a delta with content c reinforces
FirstHolder(c) ==
  pre.playbook[CHOOSE i \in Holders(c) : \A j \in Holders(c) : i <= j]

\* the deltas of the last merge_delta that reinforce the prior bullet r
DeltasFor(r) ==
  {i \in 1..Len(last.args.deltas) :
     /\ Known(last.args.deltas[i].content)
     /\ FirstHolder(last.args.deltas[i].content) = r}

\* the deltas of the last merge_delta that match no prior bullet
NewDeltas == {i \in 1..Len(last.args.deltas) : ~Known(last.args.deltas[i].content)}

\* the sum of the numbers f[i] for i in S
RECURSIVE SumIn(_, _)
SumIn(f, S) ==
  IF S = {} THEN 0
  ELSE LET i == CHOOSE j \in S : TRUE IN f[i] + SumIn(f, S \ {i})

Repeat(x, n) == [i \in 1..n |-> x]

\* C1: every bullet is owned by exactly one collection, the active playbook
\* or the archive, never both; and archiving moves the bullet objects
\* themselves (the archived references are prior active bullets, no object is
\* created and no field of any bullet changes).
C1_Ownership ==
  /\ \A r \in 1..Len(heap) : (r \in Range(playbook)) # (r \in Range(archive))
  /\ Called("archive_stale_bullets") =>
       /\ heap = pre.heap
       /\ \A r \in Range(last.ret.archived_bullets) :
            r \in Range(pre.playbook) /\ r \in Range(archive)

C1_Witness ==
  /\ Called("archive_stale_bullets")
  /\ \E r \in Range(last.ret.archived_bullets) :
       /\ heap[r].usage_timeline # <<>>
       /\ heap[r].helpful_count + heap[r].harmful_count > 1

\* C2: archive_stale_bullets(t) partitions the active collection by
\* should_archive(archive_inactive_days, t): the stale bullets are appended to
\* the archive in active order, the others stay active in their order, no
\* active bullet is stale at t afterwards, and the counts returned are the
\* sizes of the two parts and add up to the prior active size.
C2_ArchivePartition ==
  Called("archive_stale_bullets") =>
    LET t == last.args.t
        moved == last.ret.archived_bullets
    IN  /\ moved = SelectSeq(pre.playbook,
                     LAMBDA r : should_archive(pre.heap[r], archive_inactive_days, t))
        /\ archive = pre.archive \o moved
        /\ playbook = SelectSeq(pre.playbook,
                     LAMBDA r : ~should_archive(pre.heap[r], archive_inactive_days, t))
        /\ \A r \in Range(playbook) : ~should_archive(heap[r], archive_inactive_days, t)
        /\ last.ret.archived_count = Len(moved)
        /\ last.ret.active_count = Len(playbook)
        /\ last.ret.archived_count + last.ret.active_count = Len(pre.playbook)

\* a second archival, which adds a bullet behind the one archived before
C2_Witness ==
  /\ Called("archive_stale_bullets")
  /\ pre.archive # <<>>
  /\ last.ret.archived_count = 1
  /\ Len(pre.playbook) = 1
  /\ archive = pre.archive \o pre.playbook

C4_MergeNew ==
  Called("merge_delta") =>
    LET ds == last.args.deltas
        t == last.args.t
    IN  /\ last.ret = playbook
        /\ \A i \in NewDeltas :
             LET ref == Len(pre.heap) + Cardinality({j \in NewDeltas : j <= i}) IN
               /\ ref \in Range(playbook)
               /\ ref \notin Range(pre.playbook) \cup Range(pre.archive)
               /\ heap[ref].content = ds[i].content
               /\ heap[ref].created_at = t
               /\ heap[ref].last_used_at = t
               /\ heap[ref].helpful_count = ds[i].helpful_count
               /\ heap[ref].harmful_count = ds[i].harmful_count

C4_Witness ==
  /\ Called("merge_delta")
  /\ pre.playbook # <<>>
  /\ \E i \in NewDeltas :
       /\ last.args.deltas[i].created_at # last.args.t
       /\ heap[Len(heap)].created_at = last.args.t

\* C5: merge_delta drops no active bullet: every bullet active before the
\* call is active after it, and every prior bullet that no delta matched has
\* all of its fields unchanged.
C5_MergeKeepsAll ==
  Called("merge_delta") =>
    /\ Range(pre.playbook) \subseteq Range(playbook)
    /\ \A r \in Range(pre.playbook) : DeltasFor(r) = {} => heap[r] = pre.heap[r]

C5_Witness ==
  /\ Called("merge_delta")
  /\ last.args.deltas # <<>>
  /\ \E r \in Range(pre.playbook) : DeltasFor(r) = {} /\ r \in Range(playbook)
  /\ \E r \in Range(pre.playbook) : DeltasFor(r) # {}
\* the places of the prior playbook whose bullet passes the task-type filter
Eligible(task_type) ==
  {i \in 1..Len(pre.playbook) :
     \/ task_type = NoTask
     \/ task_type \in Range(pre.heap[pre.playbook[i]].task_types_used)
     \/ pre.heap[pre.playbook[i]].task_types_used = <<>>}

\* the relevance, before the call, of the bullet at place i of the playbook
Relevance(i) == relevance_score(pre.heap[pre.playbook[i]], last.args.t)

Min(a, b) == IF a < b THEN a ELSE b

Count(list, x) == Cardinality({i \in 1..Len(list) : list[i] = x})

\* C6: retrieve_relevant returns min(top_k, number of candidates) bullets, all
\* candidates, by relevance_score(t) before the call descending, bullets of
\* equal relevance in playbook order, and no candidate left out is more
\* relevant than a returned one.
C6_RetrieveRanked ==
  Called("retrieve_relevant") =>
    LET E == Eligible(last.args.task_type)
        k == Min(last.args.top_k, Cardinality(E))
    IN  /\ Len(last.ret) = k
        /\ \E f \in [1..k -> E] :
             /\ \A j \in 1..k : last.ret[j] = pre.playbook[f[j]]
             /\ \A i, j \in 1..k :
                  i < j =>
                    \/ Relevance(f[i]) > Relevance(f[j])
                    \/ Relevance(f[i]) = Relevance(f[j]) /\ f[i] < f[j]
             /\ \A q \in E \ {f[j] : j \in 1..k} :
                  \A j \in 1..k : Relevance(q) <= Relevance(f[j])

\* two candidates of equal relevance and a more relevant one behind them, of
\* which the call returns two
C6_Witness ==
  /\ Called("retrieve_relevant")
  /\ Len(last.ret) = 2
  /\ Cardinality(Eligible(last.args.task_type)) > 2
  /\ \E i, j \in Eligible(last.args.task_type) :
       /\ i < j
       /\ pre.playbook[i] # pre.playbook[j]
       /\ Relevance(i) = Relevance(j)
       /\ last.ret[2] = pre.playbook[i]
  /\ \E i, j \in Eligible(last.args.task_type) :
       i < j /\ Relevance(i) < Relevance(j) /\ last.ret[1] = pre.playbook[j]

\* C7: the candidates of retrieve_relevant with a task_type are exactly the
\* active bullets whose task_types_used holds it or is empty, and all active
\* bullets without one: nothing else is returned (no archived bullet, no
\* bullet labelled only for other task types), and all of them are returned
\* when top_k allows.
C7_Candidates ==
  Called("retrieve_relevant") =>
    LET task == last.args.task_type
        ok(r) == \/ task = NoTask
                 \/ task \in Range(pre.heap[r].task_types_used)
                 \/ pre.heap[r].task_types_used = <<>>
        eligible == SelectSeq(pre.playbook, ok)
    IN  /\ \A r \in Range(last.ret) :
             r \in Range(pre.playbook) /\ r \notin Range(pre.archive) /\ ok(r)
        /\ Len(last.ret) = Min(last.args.top_k, Len(eligible))
        /\ last.args.top_k >= Len(eligible) =>
             \A r \in Range(pre.playbook) : Count(last.ret, r) = Count(eligible, r)

\* a bullet labelled only for another task type is left out, a bullet never
\* labelled is returned
C7_Witness ==
  /\ Called("retrieve_relevant")
  /\ last.args.task_type \in TaskTypes
  /\ last.args.top_k = 2
  /\ \E r \in Range(pre.playbook) :
       /\ pre.heap[r].task_types_used # <<>>
       /\ last.args.task_type \notin Range(pre.heap[r].task_types_used)
       /\ r \notin Range(last.ret)
  /\ \E r \in Range(last.ret) : pre.heap[r].task_types_used = <<>>

\* C8: retrieve_relevant marks each returned bullet used and changes nothing
\* else: a returned bullet has last_used_at = t, one more usage_timeline
\* entry, t, and the task_type once in task_types_used when one was given;
\* every other bullet, the playbook, the archive and all counters are as they
\* were.
C8_RetrieveFrame ==
  Called("retrieve_relevant") =>
    LET t == last.args.t
        task == last.args.task_type
    IN  /\ \A r \in Range(last.ret) :
             /\ heap[r].last_used_at = t
             /\ heap[r].usage_timeline = Append(pre.heap[r].usage_timeline, t)
             /\ task # NoTask => Count(heap[r].task_types_used, task) = 1
             /\ heap[r].helpful_count = pre.heap[r].helpful_count
             /\ heap[r].harmful_count = pre.heap[r].harmful_count
        /\ \A r \in 1..Len(heap) : r \notin Range(last.ret) => heap[r] = pre.heap[r]
        /\ Len(heap) = Len(pre.heap)
        /\ playbook = pre.playbook
        /\ archive = pre.archive

\* a / b > c / d, for positive b and d
Above(x, y) == x.num * y.den > y.num * x.den

\* C9: retrieval is not idempotent: a call at t that returns a bullet raises
\* its count of usage_timeline entries in the window of t by one, so its
\* frequency score at t, and with it the avg_frequency get_temporal_stats(t)
\* reports, is higher after the call than before whenever a bullet was
\* returned; this holds for each of two calls in succession.
C9_RetrieveRaisesFrequency ==
  Called("retrieve_relevant") =>
    LET t == last.args.t IN
      /\ \A r \in Range(last.ret) :
           RecentUses(heap[r], t) = RecentUses(pre.heap[r], t) + 1
      /\ last.ret # <<>> =>
           Above(TemporalStats(heap, playbook, t).avg_frequency,
                 TemporalStats(pre.heap, pre.playbook, t).avg_frequency)

IsZero(x) == x.num = 0 /\ x.den # 0

\* C10: with an empty active collection get_temporal_stats returns
\* total_bullets = 0 and every aggregate 0, and retrieve_relevant returns the
\* empty list and leaves the curator as it was.
C10_EmptyDefaults ==
  /\ Called("get_temporal_stats") /\ pre.playbook = <<>> =>
       /\ last.ret.total_bullets = 0
       /\ IsZero(last.ret.avg_recency)
       /\ IsZero(last.ret.avg_frequency)
       /\ IsZero(last.ret.avg_relevance)
       /\ IsZero(last.ret.avg_age_days)
       /\ IsZero(last.ret.avg_inactive_days)
       /\ last.ret.stale_bullets = 0
  /\ Called("retrieve_relevant") /\ pre.playbook = <<>> =>
       /\ last.ret = <<>>
       /\ heap = pre.heap
       /\ playbook = pre.playbook
       /\ archive = pre.archive

\* the statistics of a playbook that archive_stale_bullets has emptied
C10_Witness ==
  /\ Called("get_temporal_stats")
  /\ pre.playbook = <<>>
  /\ pre.archive # <<>>
  /\ last.ret.total_bullets = 0

\* the sum of a score over the places of the active collection
ActiveSum(score) == SumIn(score, DOMAIN score)

\* C11: get_temporal_stats(t) is read-only and covers the active collection
\* only: it changes no bullet, nor the playbook, nor the archive;
\* total_bullets is the active size, every average is taken over the active
\* bullets alone, stale_bullets is the number of active bullets for which
\* should_archive(archive_inactive_days, t) holds, and that is the
\* archived_count an archive_stale_bullets(t) made on the same curator returns.
C11_StatsReadOnly ==
  /\ Called("get_temporal_stats") =>
       LET t == last.args.t
           n == Len(playbook)
           b(i) == heap[playbook[i]]
       IN  /\ heap = pre.heap
           /\ playbook = pre.playbook
           /\ archive = pre.archive
           /\ last.ret.total_bullets = n
           /\ last.ret.stale_bullets =
                Cardinality({i \in 1..n : should_archive(b(i), archive_inactive_days, t)})
           /\ n > 0 =>
                /\ last.ret.avg_recency =
                     [num |-> ActiveSum([i \in 1..n |-> recency_score(b(i), t)]),
                      den |-> ExpScale * n]
                /\ last.ret.avg_frequency =
                     [num |-> ActiveSum([i \in 1..n |-> frequency_score(b(i), t)]),
                      den |-> FREQUENCY_WINDOW_DAYS * n]
                /\ last.ret.avg_relevance =
                     [num |-> ActiveSum([i \in 1..n |-> relevance_score(b(i), t)]),
                      den |-> ExpScale * FREQUENCY_WINDOW_DAYS * n]
                /\ last.ret.avg_age_days =
                     [num |-> ActiveSum([i \in 1..n |-> DaysBetween(t, b(i).created_at)]),
                      den |-> n]
                /\ last.ret.avg_inactive_days =
                     [num |-> ActiveSum([i \in 1..n |-> DaysBetween(t, b(i).last_used_at)]),
                      den |-> n]
  /\ Called("archive_stale_bullets") =>
       last.ret.archived_count =
         TemporalStats(pre.heap, pre.playbook, last.args.t).stale_bullets

\* statistics of a playbook whose one bullet is stale, while another bullet
\* sits in the archive
C11_Witness ==
  /\ Called("get_temporal_stats")
  /\ pre.archive # <<>>
  /\ last.ret.total_bullets = 1
  /\ last.ret.stale_bullets = 1
  /\ Len(heap) > 1

\* whole days from the bullet's last use to t
days_inactive(b, t) == DaysBetween(t, b.last_used_at)

\* C12: should_archive(min_days_inactive, t) is true exactly when the whole
\* days since last_used_at are at least min_days_inactive or recency_score(t)
\* is below 0.05, whatever helpful_count and harmful_count are: of the active
\* bullets, archive_stale_bullets(t) archives exactly those, so a bullet whose
\* recency is below 0.05 is archived before archive_inactive_days are over and
\* however much helpful_count exceeds harmful_count.
C12_ShouldArchive ==
  Called("archive_stale_bullets") =>
    LET t == last.args.t IN
      /\ \A r \in Range(pre.playbook) :
           r \in Range(last.ret.archived_bullets) <=>
             \/ days_inactive(pre.heap[r], t) >= archive_inactive_days
             \/ recency_score(pre.heap[r], t) * 100 < 5 * ExpScale
      /\ \A r, q \in Range(pre.playbook) :
           pre.heap[r].last_used_at = pre.heap[q].last_used_at =>
             (r \in Range(archive) <=> q \in Range(archive))

\* a bullet three times helpful and never harmful, archived for its recency
\* alone, and an equally old harmful bullet archived with it
C12_Witness ==
  /\ Called("archive_stale_bullets")
  /\ \E r \in Range(last.ret.archived_bullets) :
       /\ days_inactive(heap[r], last.args.t) < archive_inactive_days
       /\ heap[r].helpful_count >= 3
       /\ heap[r].harmful_count = 0
  /\ \E r \in Range(last.ret.archived_bullets) :
       heap[r].harmful_count > heap[r].helpful_count

\* C13: helpful_count and harmful_count of every bullet are non-negative and
\* never decrease: a call leaves them at least what they were, and only
\* merge_delta changes them; archive_stale_bullets, retrieve_relevant and
\* get_temporal_stats leave both as they were.
C13_CountsMonotone ==
  /\ \A r \in 1..Len(heap) : heap[r].helpful_count >= 0 /\ heap[r].harmful_count >= 0
  /\ Len(heap) >= Len(pre.heap)
  /\ \A r \in 1..Len(pre.heap) :
       /\ heap[r].helpful_count >= pre.heap[r].helpful_count
       /\ heap[r].harmful_count >= pre.heap[r].harmful_count
       /\ ~Called("merge_delta") =>
            /\ heap[r].helpful_count = pre.heap[r].helpful_count
            /\ heap[r].harmful_count = pre.heap[r].harmful_count

\* one merge_delta that raises both counters of a bullet retrieved before
C13_Witness ==
  /\ Called("merge_delta")
  /\ \E r \in 1..Len(pre.heap) :
       /\ pre.heap[r].task_types_used # <<>>
       /\ heap[r].helpful_count > pre.heap[r].helpful_count
       /\ heap[r].harmful_count > pre.heap[r].harmful_count

\* C14: when the reference times of successive calls never go back, every
\* bullet's last_used_at never goes back, its created_at stays what it was
\* when the bullet entered the playbook, and last_used_at >= created_at holds
\* of every bullet in every reachable state.
C14_TimestampsOrdered ==
  /\ \A r \in 1..Len(heap) : heap[r].last_used_at >= heap[r].created_at
  /\ \A r \in 1..Len(pre.heap) :
       /\ heap[r].last_used_at >= pre.heap[r].last_used_at
       /\ heap[r].created_at = pre.heap[r].created_at

\* a bullet used after its creation and then moved forward again by a
\* retrieval at a later time
C14_Witness ==
  /\ Called("retrieve_relevant")
  /\ \E r \in Range(last.ret) :
       /\ pre.heap[r].last_used_at > pre.heap[r].created_at
       /\ heap[r].last_used_at > pre.heap[r].last_used_at
       /\ heap[r].created_at < DeltaStamp.created_at

\* C15: from_dict(to_dict(b)) is a bullet equal to b in every field (the two
\* lists in the same order), and it is independent of b: a mark_used on one
\* bullet leaves every other bullet as it was.
C15_RoundTrip ==
  /\ Called("from_dict") /\ last.args.source # 0 =>
       /\ last.ret = "none"
       /\ Len(bullets) = Len(saved.bullets) + 1
       /\ Value(lists, bullets[Len(bullets)]) = Value(lists, bullets[last.args.source])
  /\ Called("mark_used") =>
       \A j \in 1..Len(bullets) :
         j # last.args.bullet =>
           Value(lists, bullets[j]) = Value(saved.lists, saved.bullets[j])

\* a timestamp string that does not parse
Unparsable(v) == v.kind = "str" /\ v.hour \notin 0..23

\* the mapping lacks one of the nine keys, or one of its timestamps does not
\* parse (the timeline of a mapping that from_dict has read before holds
\* datetimes, not strings)
Malformed(ls, d) ==
  \/ Keys \ DOMAIN d # {}
  \/ \E k \in {"created_at", "last_used_at"} : Unparsable(d[k])
  \/ /\ d["created_at"].kind = "str"
     /\ \E i \in 1..Len(ls[d["usage_timeline"]]) : Unparsable(ls[d["usage_timeline"]][i])

\* C16: from_dict raises an error and makes no bullet whenever one of the nine
\* keys is missing from the mapping or a timestamp does not parse; no default
\* stands in for a missing field.
C16_DeserializationFails ==
  Called("from_dict") /\ Malformed(saved.lists, last.args.data) =>
    /\ last.ret # "none"
    /\ bullets = saved.bullets

\* every caller's call has returned
AllDone == \A c \in Callers : threads[c].pc = "done"

\* C17: the calls of concurrent callers on one curator take effect one after
\* another: when all of them have returned, no bullet is both active and
\* archived, every bullet is still held by the playbook or the archive, and
\* the content of every delta merged is the content of some bullet of the
\* playbook or the archive (no merged delta is lost), as after the same calls
\* made in some sequential order.
C17_Serialized ==
  AllDone =>
    /\ Range(playbook) \cap Range(archive) = {}
    /\ \A r \in 1..Len(heap) : r \in Range(playbook) \cup Range(archive)
    /\ \A c \in Callers :
         threads[c].op = "merge_delta" =>
           \A i \in 1..Len(threads[c].args.deltas) :
             \E r \in Range(playbook) \cup Range(archive) :
               heap[r].content = threads[c].args.deltas[i].content

Sign(x) == IF x > 0 THEN 1 ELSE IF x < 0 THEN -1 ELSE 0

\* C18: the sign of relevance_score(t) is the sign of utility_score, for every
\* bullet and reference time, so no result of retrieve_relevant holds a bullet
\* of negative utility before a bullet of non-negative utility, whatever
\* their recency and frequency.
C18_SignOfRelevance ==
  /\ \A r \in 1..Len(heap) : \A t \in Times :
       Sign(relevance_score(heap[r], t)) = Sign(utility_score(heap[r]))
  /\ Called("retrieve_relevant") =>
       \A i, j \in 1..Len(last.ret) :
         i < j => ~ /\ utility_score(pre.heap[last.ret[i]]) < 0
                    /\ utility_score(pre.heap[last.ret[j]]) >= 0

\* a harmful bullet, first in the playbook, used more recently and more often
\* than a helpful one, is returned behind it
C18_Witness ==
  /\ Called("retrieve_relevant")
  /\ Len(last.ret) = 2
  /\ pre.playbook = <<last.ret[2], last.ret[1]>>
  /\ utility_score(pre.heap[last.ret[2]]) < 0
  /\ utility_score(pre.heap[last.ret[1]]) > 0
  /\ recency_score(pre.heap[last.ret[2]], last.args.t)
       > recency_score(pre.heap[last.ret[1]], last.args.t)
  /\ frequency_score(pre.heap[last.ret[2]], last.args.t)
       > frequency_score(pre.heap[last.ret[1]], last.args.t)

\* every bullet of the list appears in it once, and no two share a content
OncePerContent(h, list) ==
  \A i, j \in 1..Len(list) : i # j => h[list[i]].content # h[list[j]].content

\* C19: from a playbook that holds every bullet once and no two bullets of
\* equal content, merge_delta (also of several deltas with one content, known
\* or new) leads to a playbook that again holds every bullet once and no two
\* bullets of equal content, and whose size is the prior size plus the number
\* of distinct delta contents that matched no prior bullet.
C19_MergeKeepsContentsDistinct ==
  Called("merge_delta") /\ OncePerContent(pre.heap, pre.playbook) =>
    /\ OncePerContent(heap, playbook)
    /\ Len(playbook) =
         Len(pre.playbook)
           + Cardinality({last.args.deltas[i].content : i \in NewDeltas})

====
